---- MODULE Spec2Model ----
(***************************************************************************)
(* The duplicate-safe bulk insert, the chunked readers and the retry       *)
(* wrapper of nesta (orm_utils.py, crunchbase_collect.py, vectors/read.py) *)
(* as state machines.                                                      *)
(*                                                                         *)
(* Python values are records [t, n, s]: an int n (t = "int"), a str whose  *)
(* characters are the sequence s (t = "str"; a character is a number, the  *)
(* digits '0'..'9' are 0..9 and 10 is the letter 'x').  A row of data is a *)
(* function from the primary-key column names to values; Absent marks a    *)
(* key the dict does not hold.  The lists the code builds (objs,           *)
(* existing_objs, failed_objs, a batch) hold references to the dicts of    *)
(* `data`: they are sequences of positions in `data`.                      *)
(***************************************************************************)
EXTENDS Integers, Sequences, FiniteSets, TLC

\* ------------------------------------------------------------------ bounds
MaxRows == 3        \* rows of the list given to the writer
VarcharLen == 1     \* n of the VARCHAR(n) key column
MaxBatchSize == 2   \* batch_size of _insert_data
MaxRuns == 2        \* calls on the same input, invocations of a generator
MaxFails == 3       \* OperationalErrors of f before its last outcome
MaxCalls == MaxFails + 2   \* the counters of calls and sleeps stop here
MaxFaults == 1      \* OperationalErrors of the store during the calls
MaxSource == 4      \* rows of the table the readers read
MaxChunk == 2       \* chunksize, max_chunks
MaxFaultyRows == 1  \* rows given to the writer when the store may raise
MaxScan == 3        \* rows of a table that the store returns in any order
MaxPeerRows == 1    \* rows of each of two concurrent writers
MaxVersion == 20    \* version of an index name
MaxTotal == 6       \* lines of the input of an MLTask
MaxJobs == 3        \* jobs handed to hard_terminate

\* ------------------------------------------------------------ python values
IntV(k) == [t |-> "int", n |-> k, s |-> <<>>]
StrV(q) == [t |-> "str", n |-> 0, s |-> q]
Absent == [t |-> "absent", n |-> 0, s |-> <<>>]
PyError == [t |-> "error", n |-> 0, s |-> <<>>]

IsDigits(q) == Len(q) > 0 /\ \A i \in 1..Len(q) : q[i] \in 0..9

RECURSIVE DigitsToInt(_)
DigitsToInt(q) ==
    IF q = <<>> THEN 0
    ELSE 10 * DigitsToInt(SubSeq(q, 1, Len(q) - 1)) + q[Len(q)]

RECURSIVE IntToDigits(_)
IntToDigits(k) ==
    IF k < 10 THEN <<k>> ELSE Append(IntToDigits(k \div 10), k % 10)

\* int(data): a ValueError for a str that is not a decimal number
py_int(v) ==
    IF v.t = "int" THEN v
    ELSE IF IsDigits(v.s) THEN IntV(DigitsToInt(v.s))
    ELSE PyError

\* str(data)
py_str(v) ==
    IF v.t = "str" THEN v ELSE StrV(IntToDigits(v.n))

python_type(field, v) ==
    IF field.type = "int" THEN py_int(v) ELSE py_str(v)

cast_as_sql_python_type(field, v) ==
    LET _data == python_type(field, v)
    IN  IF field.type = "str" /\ _data.t = "str" /\ field.length < Len(_data.s)
        THEN StrV(SubSeq(_data.s, 1, field.length))
        ELSE _data

\* --------------------------------------------------------- entity definitions
Column(name, type, length, autoincrement) ==
    [name |-> name, type |-> type, length |-> length,
     autoincrement |-> autoincrement]

\* `p.autoincrement` is "auto" (the default of Column), True or False; the
\* code reads it as a truth value, and a non-empty str is true
Truthy(a) == a \in {"auto", "True"}

\* nih_orm.Patents: patent_id = Column(VARCHAR(n), primary_key=True)
Patents == << Column("patent_id", "str", VarcharLen, "auto") >>
\* nih_orm.Projects: application_id = Column(INTEGER, primary_key=True)
Projects == << Column("application_id", "int", 0, "auto") >>
\* DummyModel of the tests: a composite key of two INTEGER columns
DummyModel == << Column("_id", "int", 0, "auto"),
                 Column("_another_id", "int", 0, "auto") >>
Classes == {"Patents", "Projects", "DummyModel"}

pkey_cols(cls) ==
    CASE cls = "Patents" -> Patents
      [] cls = "Projects" -> Projects
      [] cls = "DummyModel" -> DummyModel

\* The rows an input list is drawn from, per entity: keys that fit, a str
\* longer than VARCHAR(n), values of the other python type, a missing key.
Fit == [i \in 1..VarcharLen |-> 1]
Over == Append(Fit, 2)
Other == [i \in 1..VarcharLen |-> 2]

Rows(cls) ==
    CASE cls = "Patents" ->
           [{"patent_id"} -> {Absent, StrV(Fit), StrV(Over), StrV(Other),
                              IntV(DigitsToInt(Fit))}]
      [] cls = "Projects" ->
           [{"application_id"} -> {Absent, IntV(1), IntV(2)}]
      [] cls = "DummyModel" ->
           {[_id |-> a, _another_id |-> IntV(2)] : a \in {Absent, IntV(1), IntV(2)}}

SeqsUpTo(S, n) == UNION {[1..k -> S] : k \in 0..n}

\* ------------------------------------------------------------ the filter
Impls == {"core", "production"}

\* core/orms/orm_utils.py:300-302; production/orms/orm_utils.py has no such test
is_auto_pkey(im, pkey_cols_) ==
    /\ im = "core"
    /\ \A i \in 1..Len(pkey_cols_) :
          Truthy(pkey_cols_[i].autoincrement) /\ pkey_cols_[i].type = "int"

has_all_pkeys(pkey_cols_, row) ==
    \A i \in 1..Len(pkey_cols_) : row[pkey_cols_[i].name] # Absent

\* core: cast_as_sql_python_type(pkey, row[pkey.name]);
\* production: row[pkey.name], or str(row[pkey.name]) for a str column
pk_field(im, pkey, v) ==
    IF im = "core" THEN cast_as_sql_python_type(pkey, v)
    ELSE IF pkey.type = "str" THEN py_str(v) ELSE v

pk_tuple(im, pkey_cols_, row) ==
    [i \in 1..Len(pkey_cols_) |->
        pk_field(im, pkey_cols_[i], row[pkey_cols_[i].name])]

RECURSIVE LeadingDigits(_)
LeadingDigits(q) ==
    IF q = <<>> \/ Head(q) \notin 0..9 THEN <<>>
    ELSE <<Head(q)>> \o LeadingDigits(Tail(q))

\* The store's `column = value` of a WHERE clause: an INTEGER column against
\* a str, or a VARCHAR column against an int, is compared as numbers (a str's
\* number is its leading digits); a VARCHAR column against a str, as strings.
sql_eq(pkey, stored, v) ==
    IF pkey.type = "int"
    THEN stored.n = (IF v.t = "int" THEN v.n ELSE DigitsToInt(LeadingDigits(v.s)))
    ELSE IF v.t = "str" THEN stored.s = v.s
         ELSE DigitsToInt(LeadingDigits(stored.s)) = v.n

\* an existence query without its WHERE clause
exists_any_row(table, pkey_cols_, row) == table # {}

\* session.query(exists(_class, **row)).scalar(): the row's own values
exists(table, pkey_cols_, row) ==
    \E k \in table : \A i \in 1..Len(pkey_cols_) :
        sql_eq(pkey_cols_[i], k[i], row[pkey_cols_[i].name])

\* The mutant of filter_row that leaves a row without its keys out of
\* failed_objs.
filter_row_forgets_failed(im, pkey_cols_, low_memory_, all_pks_, table, row) ==
    LET pk == pk_tuple(im, pkey_cols_, row)
    IN  IF ~is_auto_pkey(im, pkey_cols_) /\ ~has_all_pkeys(pkey_cols_, row)
        THEN [to |-> "nowhere", all_pks |-> all_pks_]
        ELSE IF is_auto_pkey(im, pkey_cols_)
        THEN [to |-> "objs", all_pks |-> all_pks_]
        ELSE IF \E i \in 1..Len(pk) : pk[i] = PyError
        THEN [to |-> "raise", all_pks |-> all_pks_]
        ELSE IF pk \in all_pks_
        THEN [to |-> "existing", all_pks |-> all_pks_]
        ELSE IF ~low_memory_ /\ exists(table, pkey_cols_, row)
        THEN [to |-> "existing", all_pks |-> all_pks_ \cup {pk}]
        ELSE [to |-> "objs", all_pks |-> all_pks_ \cup {pk}]

\* One pass of the loop of _filter_out_duplicates over `row`: where the row
\* goes ("failed", "existing", "objs", or "raise" when the cast raises) and
\* the set all_pks afterwards.  `table` is what the session's queries see.
filter_row(im, pkey_cols_, low_memory_, all_pks_, table, row) ==
    LET auto == is_auto_pkey(im, pkey_cols_)
        pk == pk_tuple(im, pkey_cols_, row)
    IN  IF ~auto /\ ~has_all_pkeys(pkey_cols_, row)
        THEN [to |-> "failed", all_pks |-> all_pks_]
        ELSE IF auto
        THEN [to |-> "objs", all_pks |-> all_pks_]
        ELSE IF \E i \in 1..Len(pk) : pk[i] = PyError
        THEN [to |-> "raise", all_pks |-> all_pks_]
        ELSE IF pk \in all_pks_
        THEN [to |-> "existing", all_pks |-> all_pks_]
        ELSE IF ~low_memory_ /\ exists(table, pkey_cols_, row)
        THEN [to |-> "existing", all_pks |-> all_pks_ \cup {pk}]
        ELSE [to |-> "objs", all_pks |-> all_pks_ \cup {pk}]

\* whether the pass of the loop over `row` gets to the query
\* session.query(exists(_class, **row))
issues_exists_query(im, pkey_cols_, low_memory_, all_pks_, row) ==
    LET pk == pk_tuple(im, pkey_cols_, row)
    IN  /\ ~is_auto_pkey(im, pkey_cols_)
        /\ has_all_pkeys(pkey_cols_, row)
        /\ \A i \in 1..Len(pk) : pk[i] # PyError
        /\ pk \notin all_pks_
        /\ ~low_memory_

\* all_pks before the loop: the keys of the table in low-memory mode
read_all_pks(im, pkey_cols_, low_memory_, table) ==
    IF low_memory_ /\ ~is_auto_pkey(im, pkey_cols_) THEN table ELSE {}

\* The whole of _filter_out_duplicates on the rows rows_[b[1]], rows_[b[2]], ...:
\* the three lists (as positions) and whether a cast raised.
RECURSIVE filter_from(_, _, _, _, _, _, _, _)
filter_from(im, pkey_cols_, low_memory_, table, rows_, b, i, acc) ==
    IF i > Len(b) \/ acc.raised THEN acc
    ELSE LET r == filter_row(im, pkey_cols_, low_memory_, acc.all_pks,
                             table, rows_[b[i]])
         IN  filter_from(im, pkey_cols_, low_memory_, table, rows_, b, i + 1,
               [objs |-> IF r.to = "objs" THEN Append(acc.objs, b[i])
                         ELSE acc.objs,
                existing_objs |-> IF r.to = "existing"
                                  THEN Append(acc.existing_objs, b[i])
                                  ELSE acc.existing_objs,
                failed_objs |-> IF r.to = "failed"
                                THEN Append(acc.failed_objs, b[i])
                                ELSE acc.failed_objs,
                all_pks |-> r.all_pks,
                raised |-> r.to = "raise"])

_filter_out_duplicates(im, pkey_cols_, low_memory_, table, rows_, b) ==
    filter_from(im, pkey_cols_, low_memory_, table, rows_, b, 1,
                [objs |-> <<>>, existing_objs |-> <<>>, failed_objs |-> <<>>,
                 all_pks |-> read_all_pks(im, pkey_cols_, low_memory_, table),
                 raised |-> FALSE])

\* ------------------------------------------------------------- the store
\* The table creates an AUTO_INCREMENT column for a key of one INTEGER
\* column whose autoincrement is not False.
has_autoincrement_column(pkey_cols_) ==
    /\ Len(pkey_cols_) = 1
    /\ pkey_cols_[1].type = "int"
    /\ Truthy(pkey_cols_[1].autoincrement)

MaxKey(table) ==
    IF table = {} THEN 0
    ELSE CHOOSE m \in {k[1].n : k \in table} : \A k \in table : k[1].n <= m

\* What the store writes for value v of a key column.  A value that does not
\* fit the column (a str too long, a str that is no number, a missing value)
\* is an error under a strict sql_mode and is adjusted otherwise.
store_value(pkey, v, strict, next_id) ==
    IF v = Absent
    THEN IF next_id > 0 THEN IntV(next_id)
         ELSE IF strict THEN PyError
         ELSE IF pkey.type = "int" THEN IntV(0) ELSE StrV(<<>>)
    ELSE IF pkey.type = "int"
    THEN IF v.t = "int" THEN v
         ELSE IF IsDigits(v.s) THEN IntV(DigitsToInt(v.s))
         ELSE IF strict THEN PyError
         ELSE IntV(DigitsToInt(LeadingDigits(v.s)))
    ELSE LET q == py_str(v).s
         IN  IF Len(q) <= pkey.length THEN StrV(q)
             ELSE IF strict THEN PyError
             ELSE StrV(SubSeq(q, 1, pkey.length))

\* session.bulk_save_objects(objs): the INSERTs of the transaction, in the
\* order of objs; the first error (DataError, IntegrityError) ends it.
RECURSIVE bulk_save_from(_, _, _, _, _, _)
bulk_save_from(pkey_cols_, rows_, objs_, strict, i, acc) ==
    IF i > Len(objs_) \/ acc.error # "" THEN acc
    ELSE LET row == rows_[objs_[i]]
             next_id == IF has_autoincrement_column(pkey_cols_)
                        THEN MaxKey(acc.table) + 1 ELSE 0
             k == [j \in 1..Len(pkey_cols_) |->
                     store_value(pkey_cols_[j], row[pkey_cols_[j].name],
                                 strict, next_id)]
         IN  bulk_save_from(pkey_cols_, rows_, objs_, strict, i + 1,
               IF \E j \in 1..Len(k) : k[j] = PyError
               THEN [acc EXCEPT !.error = "DataError"]
               ELSE IF k \in acc.table
               THEN [acc EXCEPT !.error = "IntegrityError"]
               ELSE [acc EXCEPT !.table = acc.table \cup {k}])

bulk_save_objects(pkey_cols_, rows_, objs_, strict, table) ==
    bulk_save_from(pkey_cols_, rows_, objs_, strict, 1,
                   [table |-> table, error |-> ""])

\* The rows another open transaction has inserted and not committed are
\* locked: an INSERT of one of their keys waits until that transaction ends.
\* `held` is the set of these keys; p is the other insert_data instance.
uncommitted(p) == IF p.at = "ins_commit" THEN p.pending ELSE {}
waits_for_lock(pkey_cols_, rows_, objs_, strict, table, held) ==
    bulk_save_objects(pkey_cols_, rows_, objs_, strict, table \cup held).error
        # bulk_save_objects(pkey_cols_, rows_, objs_, strict, table).error

\* ------------------------------------------------- the chunked bulk writer
\* The generator split_batches(data, batch_size) over n rows: g.at is where it
\* is suspended, g.i the rows of `data` its loop has taken, g.batch the list it
\* yielded last (the list `data` itself, or its own list `batch`), g.yielded
\* the lists it has yielded, each as it was when it was yielded.
split_batches_start ==
    [at |-> "start", i |-> 0, batch |-> <<>>, yielded |-> <<>>]

\* the for loop of split_batches, up to its next `yield batch` or its end
RECURSIVE fill_batch(_, _, _, _)
fill_batch(n, size, i, b) ==
    IF i >= n THEN [i |-> i, batch |-> b, yield |-> FALSE]
    ELSE LET b1 == Append(b, i + 1)
         IN  IF Len(b1) = size THEN [i |-> i + 1, batch |-> b1, yield |-> TRUE]
             ELSE fill_batch(n, size, i + 1, b1)

\* the generator g after it has yielded the list b
yield(g, at, i, b) ==
    [at |-> at, i |-> i, batch |-> b, yielded |-> Append(g.yielded, b)]

\* split_batches without its last statement, `if len(batch) > 0: yield batch`
split_batches_without_rest(n, size, g) ==
    IF g.at = "start" /\ n <= size
    THEN yield(g, "yielded_data", n, [k \in 1..n |-> k])
    ELSE IF g.at \in {"yielded_data", "yielded_rest", "stopped"}
    THEN [g EXCEPT !.at = "stopped"]
    ELSE LET f == fill_batch(n, size, g.i, <<>>)
         IN  IF f.yield
             THEN yield(g, "yielded_batch", f.i, f.batch)
             ELSE [g EXCEPT !.at = "stopped", !.i = f.i, !.batch = f.batch]

\* next(generator)
split_batches(n, size, g) ==
    IF g.at = "start" /\ n <= size
    THEN yield(g, "yielded_data", n, [k \in 1..n |-> k])
    ELSE IF g.at \in {"yielded_data", "yielded_rest", "stopped"}
    THEN [g EXCEPT !.at = "stopped"]
    ELSE \* "start" with n > size, or resumed after `yield batch`: batch.clear()
         LET f == fill_batch(n, size, g.i, <<>>)
         IN  IF f.yield
             THEN yield(g, "yielded_batch", f.i, f.batch)
             ELSE IF Len(f.batch) > 0
             THEN yield(g, "yielded_rest", f.i, f.batch)
             ELSE [g EXCEPT !.at = "stopped", !.i = f.i, !.batch = f.batch]

\* The lists g has yielded, as they are now: with n <= size the one list is
\* `data`, which the generator does not change; otherwise every yield is
\* `yield batch` of the one list `batch`, which the generator clears and
\* fills again when it is resumed, and g.batch is what that list holds.
yielded_lists(n, size, g) ==
    [k \in DOMAIN g.yielded |->
        IF n <= size THEN [j \in 1..n |-> j] ELSE g.batch]

TotalsNone ==
    [none |-> TRUE, inserted |-> 0, existing |-> 0, failed |-> 0,
     total |-> 0, batch_total |-> 0]

\* total_records without `totals[k] += append_to[k]`
total_records_of_batch(data_dict, append_to) ==
    LET total == Len(data_dict.inserted) + Len(data_dict.existing)
                 + Len(data_dict.failed)
    IN  [none |-> FALSE,
         inserted |-> Len(data_dict.inserted),
         existing |-> Len(data_dict.existing),
         failed |-> Len(data_dict.failed),
         total |-> total,
         batch_total |-> total]

total_records(data_dict, append_to) ==
    LET total == Len(data_dict.inserted) + Len(data_dict.existing)
                 + Len(data_dict.failed)
        add(k) == IF append_to.none THEN 0 ELSE k
    IN  [none |-> FALSE,
         inserted |-> Len(data_dict.inserted) + add(append_to.inserted),
         existing |-> Len(data_dict.existing) + add(append_to.existing),
         failed |-> Len(data_dict.failed) + add(append_to.failed),
         total |-> total + add(append_to.total),
         batch_total |-> total]

\* ------------------------------------------------------ the retry wrapper
Return(v) == [kind |-> "return", value |-> v]
Raise(e) == [kind |-> e, value |-> 0]

\* a wrapper whose except clause catches every exception
try_until_allowed_catches_all(outcome) ==
    IF outcome.kind = "return"
    THEN [do |-> "return", value |-> outcome.value, exc |-> ""]
    ELSE [do |-> "sleep_and_continue", value |-> 0, exc |-> ""]

\* a wrapper that does not retry
try_until_allowed_gives_up(outcome) ==
    IF outcome.kind = "return"
    THEN [do |-> "return", value |-> outcome.value, exc |-> ""]
    ELSE [do |-> "propagate", value |-> 0, exc |-> outcome.kind]

\* One pass of the `while True` of try_until_allowed, on what the call
\* f(*args, **kwargs) of this pass did.
try_until_allowed(outcome) ==
    IF outcome.kind = "OperationalError"
    THEN [do |-> "sleep_and_continue", value |-> 0, exc |-> ""]
    ELSE IF outcome.kind = "return"
    THEN [do |-> "return", value |-> outcome.value, exc |-> ""]
    ELSE [do |-> "propagate", value |-> 0, exc |-> outcome.kind]

\* ------------------------------------------------------------------ state
VARIABLES
    impl,            \* which orm_utils.py: nesta.core or nesta.production
    _class,          \* the ORM class of the call
    data,            \* the rows of the call
    low_memory,      \* the flag of insert_data
    op,              \* the call made: "insert_data" or "_insert_data"
    batch_size,      \* of _insert_data
    store,           \* the table: the key tuples of its committed rows
    pc,              \* where the call is
    run,             \* the number of this call on the same input
    gen,             \* the split_batches generator; gen.batch is `batch`
    all_pks, irow, objs, existing_objs, failed_objs,  \* _filter_out_duplicates
    pending,         \* the table as the open transaction of insert_data has it
    returned,        \* what insert_data returned last
    totals,          \* of _insert_data
    exc,             \* the exception the call ended with, "" for none
    sessions,        \* the sessions that are open
    results,         \* what each finished call gave its caller
    faults,          \* the OperationalErrors the store may still raise
    sleeps,          \* the time.sleep(5) calls of try_until_allowed so far
    drops,           \* the rows the store may still drop silently at a commit
    lost,            \* the keys the store dropped during this call
    w,               \* a direct call try_until_allowed(f, *args)
    dsq,             \* a db_session_query generator and its consumer
    rd,              \* a download_vectors / read_data call and its arrays
    peer,            \* a second insert_data instance on the same table
    call             \* a call of setup_es, of the MLTask batch functions or
                     \* of hard_terminate

inputs == <<impl, _class, data, low_memory, op, batch_size>>
filter_vars == <<all_pks, irow, objs, existing_objs, failed_objs>>
env_vars == <<faults, sleeps, drops>>
other_calls == <<w, dsq, rd, peer, call>>
vars == <<impl, _class, data, low_memory, op, batch_size, store, pc, run, gen,
          all_pks, irow, objs, existing_objs, failed_objs, pending, returned,
          totals, exc, sessions, results, faults, sleeps, drops, lost, w, dsq, rd,
          peer, call>>

batch == gen.batch
WIdle == [at |-> "idle"]
QIdle == [at |-> "idle"]
RdIdle == [at |-> "idle"]
PeerIdle == [at |-> "idle"]
CallIdle == [at |-> "idle"]
cols == pkey_cols(_class)
NoReturn == [inserted |-> <<>>, existing |-> <<>>, failed |-> <<>>]

InitState ==
    /\ store = {}
    /\ run = 1
    /\ gen = split_batches_start
    /\ all_pks = {} /\ irow = 0
    /\ objs = <<>> /\ existing_objs = <<>> /\ failed_objs = <<>>
    /\ pending = {}
    /\ returned = NoReturn
    /\ totals = TotalsNone
    /\ exc = ""
    /\ sessions = 0
    /\ results = <<>>
    /\ sleeps = 0
    /\ lost = {}

\* a call of the writer: insert_data or _insert_data
InitCall ==
    /\ impl \in Impls
    /\ _class \in Classes
    /\ data \in SeqsUpTo(Rows(_class), MaxRows)
    /\ \/ op = "insert_data" /\ low_memory \in BOOLEAN /\ batch_size = 0
       \* _insert_data imports insert_data from nesta.production and leaves
       \* low_memory at its default
       \/ /\ op = "_insert_data" /\ impl = "production"
          /\ low_memory = FALSE /\ batch_size \in 1..MaxBatchSize
    /\ pc = "start"
    /\ InitState
    /\ w = WIdle /\ dsq = QIdle /\ rd = RdIdle /\ peer = PeerIdle /\ call = CallIdle

\* a call that is not one of the writer: the writer's inputs are not used
NoWriter ==
    /\ impl = "core" /\ _class = "Patents" /\ data = <<>>
    /\ low_memory = FALSE /\ batch_size = 0
    /\ pc = "other"
    /\ InitState
    /\ peer = PeerIdle

Init == InitCall /\ faults = 0 /\ drops = 0

\* ---------------------------------------------------------------- actions
\* The call ends: it returns (status "done") or raises e (status "raised").
End(status, e) ==
    /\ pc' = status
    /\ exc' = e
    /\ results' = Append(results,
          [status |-> status, exc |-> e, at |-> pc, inserted |-> objs,
           existing |-> existing_objs, failed |-> failed_objs,
           totals |-> totals, table |-> store])

\* The caller calls insert_data(..., data, ...) or _insert_data(..., data, ...).
Call ==
    /\ pc = "start"
    /\ IF op = "insert_data"
       THEN /\ gen' = [at |-> "data", i |-> Len(data),
                       batch |-> [k \in 1..Len(data) |-> k],
                       yielded |-> <<>>]
            /\ pc' = "fod_create_all"
       ELSE /\ gen' = split_batches_start
            /\ pc' = "next_batch"
    /\ totals' = TotalsNone
    /\ lost' = {}
    /\ UNCHANGED <<inputs, store, run, filter_vars, pending, returned, exc,
                   sessions, results, env_vars, other_calls>>

\* _insert_data: `for batch in split_batches(data, batch_size)` takes the next
\* batch and calls insert_data on it, or ends the loop and checks the total.
NextBatch ==
    /\ pc = "next_batch"
    /\ LET g == split_batches(Len(data), batch_size, gen)
       IN  /\ gen' = g
           /\ IF g.at # "stopped"
              THEN /\ pc' = "fod_create_all"
                   /\ UNCHANGED <<exc, results>>
              ELSE IF totals.total # Len(data)
              THEN End("raised", "ValueError")
              ELSE End("done", "")
    /\ UNCHANGED <<inputs, store, run, filter_vars, pending, returned, totals,
                   sessions, env_vars, lost, other_calls>>

\* try_until_allowed(Base.metadata.create_all, engine), which returns
CreateAll ==
    /\ pc \in {"fod_create_all", "ins_create_all"}
    /\ try_until_allowed(Return(0)).do = "return"
    /\ pc' = IF pc = "fod_create_all" THEN "fod_session" ELSE "ins_session"
    /\ UNCHANGED <<inputs, store, run, gen, filter_vars, pending, returned,
                   totals, exc, sessions, results, env_vars, lost, other_calls>>

\* Session = try_until_allowed(sessionmaker, engine);
\* session = try_until_allowed(Session); in the filter, the empty lists follow
OpenSession ==
    /\ pc \in {"fod_session", "ins_session"}
    /\ try_until_allowed(Return(0)).do = "return"
    /\ sessions' = sessions + 1
    /\ IF pc = "fod_session"
       THEN /\ all_pks' = {}
            /\ objs' = <<>> /\ existing_objs' = <<>> /\ failed_objs' = <<>>
            /\ irow' = 1
            /\ pc' = IF low_memory /\ ~is_auto_pkey(impl, cols)
                     THEN "fod_read_pks" ELSE "fod_row"
       ELSE /\ pc' = "ins_bulk_save"
            /\ UNCHANGED filter_vars
    /\ UNCHANGED <<inputs, store, run, gen, pending, returned, totals, exc,
                   results, env_vars, lost, other_calls>>

\* all_pks = set(session.query(*fields).all())
ReadAllPks ==
    /\ pc = "fod_read_pks"
    /\ all_pks' = read_all_pks(impl, cols, low_memory, store)
    /\ pc' = "fod_row"
    /\ UNCHANGED <<inputs, store, run, gen, irow, objs, existing_objs,
                   failed_objs, pending, returned, totals, exc, sessions,
                   results, env_vars, lost, other_calls>>

\* one pass of `for irow, row in enumerate(data)`
FilterRow ==
    /\ pc = "fod_row"
    /\ irow <= Len(batch)
    /\ LET r == filter_row(impl, cols, low_memory, all_pks, store,
                           data[batch[irow]])
       IN  /\ all_pks' = r.all_pks
           /\ objs' = IF r.to = "objs" THEN Append(objs, batch[irow]) ELSE objs
           /\ existing_objs' = IF r.to = "existing"
                               THEN Append(existing_objs, batch[irow])
                               ELSE existing_objs
           /\ failed_objs' = IF r.to = "failed"
                             THEN Append(failed_objs, batch[irow])
                             ELSE failed_objs
           /\ IF r.to = "raise"
              THEN /\ End("raised", "ValueError")
                   /\ UNCHANGED irow
              ELSE /\ irow' = irow + 1
                   /\ UNCHANGED <<pc, exc, results>>
    /\ UNCHANGED <<inputs, store, run, gen, pending, returned, totals,
                   sessions, env_vars, lost, other_calls>>

\* session.close(); return objs, existing_objs, failed_objs
FilterReturn ==
    /\ pc = "fod_row"
    /\ irow > Len(batch)
    /\ sessions' = sessions - 1
    /\ pc' = "ins_create_all"
    /\ UNCHANGED <<inputs, store, run, gen, filter_vars, pending, returned,
                   totals, exc, results, env_vars, lost, other_calls>>

\* session.bulk_save_objects(objs)
BulkSave ==
    /\ pc = "ins_bulk_save"
    /\ \E strict \in BOOLEAN :
         LET r == bulk_save_objects(cols, data, objs, strict, store)
         IN  /\ ~waits_for_lock(cols, data, objs, strict, store,
                                uncommitted(peer))
             /\ IF r.error # ""
                THEN End("raised", r.error) /\ UNCHANGED pending
                ELSE /\ pending' = r.table
                     /\ pc' = "ins_commit"
                     /\ UNCHANGED <<exc, results>>
    /\ UNCHANGED <<inputs, store, run, gen, filter_vars, returned, totals,
                   sessions, env_vars, lost, other_calls>>

\* session.commit(); session.close(); return
Commit ==
    /\ pc = "ins_commit"
    /\ store' = store \cup pending
    /\ sessions' = sessions - 1
    /\ returned' = [inserted |-> objs, existing |-> existing_objs,
                    failed |-> failed_objs]
    /\ pc' = "returned"
    /\ UNCHANGED <<inputs, run, gen, filter_vars, pending, totals, exc,
                   results, env_vars, lost, other_calls>>

\* insert_data has returned: to the caller, or into the loop of _insert_data
\* (total_records and the check of the batch total)
AfterInsert ==
    /\ pc = "returned"
    /\ IF op = "insert_data"
       THEN End("done", "") /\ UNCHANGED totals
       ELSE LET t == total_records(returned, totals)
            IN  /\ totals' = t
                /\ IF t.batch_total # Len(batch)
                   THEN End("raised", "ValueError")
                   ELSE pc' = "next_batch" /\ UNCHANGED <<exc, results>>
    /\ UNCHANGED <<inputs, store, run, gen, filter_vars, pending, returned,
                   sessions, env_vars, lost, other_calls>>

\* The caller makes the same call again.
Rerun ==
    /\ pc \in {"done", "raised"}
    /\ run < MaxRuns
    /\ run' = run + 1
    /\ pc' = "start"
    /\ exc' = ""
    /\ UNCHANGED <<inputs, store, gen, filter_vars, pending, returned, totals,
                   sessions, results, env_vars, lost, other_calls>>

Next ==
    \/ Call
    \/ NextBatch
    \/ CreateAll
    \/ OpenSession
    \/ ReadAllPks
    \/ FilterRow
    \/ FilterReturn
    \/ BulkSave
    \/ Commit
    \/ AfterInsert
    \/ Rerun

Spec == Init /\ [][Next]_vars

\* ------------------------------------------------- two concurrent writers
\* A second instance of insert_data(..., _class, data, low_memory) runs on the
\* same table: p.irow, p.all_pks and the three lists are those of its filter,
\* p.pending the keys its open transaction has inserted.
insert_data(rows_) ==
    [at |-> "start", data |-> rows_, irow |-> 0, all_pks |-> {},
     objs |-> <<>>, existing_objs |-> <<>>, failed_objs |-> <<>>,
     pending |-> {}, exc |-> ""]

\* the keys the transaction of the first instance has inserted
held_by_first == IF pc = "ins_commit" THEN pending \ store ELSE {}

\* filter_out_duplicates up to its loop: create_all, the session, all_pks
PeerReadAllPks ==
    /\ peer.at = "start"
    /\ peer' = [peer EXCEPT !.at = "fod_row", !.irow = 1,
                   !.all_pks = read_all_pks(impl, cols, low_memory, store)]
    /\ UNCHANGED <<inputs, store, pc, run, gen, filter_vars, pending, returned,
                   totals, exc, sessions, results, env_vars, lost, w, dsq, rd,
                   call>>

\* one pass of the loop of _filter_out_duplicates
PeerFilterRow ==
    /\ peer.at = "fod_row"
    /\ peer.irow <= Len(peer.data)
    /\ LET r == filter_row(impl, cols, low_memory, peer.all_pks, store,
                           peer.data[peer.irow])
       IN  peer' =
             IF r.to = "raise"
             THEN [peer EXCEPT !.at = "raised", !.exc = "ValueError"]
             ELSE [peer EXCEPT
                     !.irow = @ + 1,
                     !.all_pks = r.all_pks,
                     !.objs = IF r.to = "objs" THEN Append(@, peer.irow)
                              ELSE @,
                     !.existing_objs = IF r.to = "existing"
                                       THEN Append(@, peer.irow) ELSE @,
                     !.failed_objs = IF r.to = "failed"
                                     THEN Append(@, peer.irow) ELSE @]
    /\ UNCHANGED <<inputs, store, pc, run, gen, filter_vars, pending, returned,
                   totals, exc, sessions, results, env_vars, lost, w, dsq, rd,
                   call>>

\* the filter returns; create_all, the session, session.bulk_save_objects(objs)
PeerBulkSave ==
    /\ peer.at = "fod_row"
    /\ peer.irow > Len(peer.data)
    /\ \E strict \in BOOLEAN :
         LET r == bulk_save_objects(cols, peer.data, peer.objs, strict, store)
         IN  /\ ~waits_for_lock(cols, peer.data, peer.objs, strict, store,
                                held_by_first)
             /\ peer' = IF r.error # ""
                        THEN [peer EXCEPT !.at = "raised", !.exc = r.error]
                        ELSE [peer EXCEPT !.at = "ins_commit",
                                          !.pending = r.table \ store]
    /\ UNCHANGED <<inputs, store, pc, run, gen, filter_vars, pending, returned,
                   totals, exc, sessions, results, env_vars, lost, w, dsq, rd,
                   call>>

\* session.commit(); session.close(); return
PeerCommit ==
    /\ peer.at = "ins_commit"
    /\ store' = store \cup peer.pending
    /\ peer' = [peer EXCEPT !.at = "done"]
    /\ UNCHANGED <<inputs, pc, run, gen, filter_vars, pending, returned,
                   totals, exc, sessions, results, env_vars, lost, w, dsq, rd,
                   call>>

\* the rows of an entity that carry every key field
KeyedRowsOf(cls) == {r \in Rows(cls) : has_all_pkeys(pkey_cols(cls), r)}

InitPeers ==
    /\ impl \in Impls
    /\ _class \in Classes
    /\ low_memory \in BOOLEAN
    /\ op = "insert_data" /\ batch_size = 0
    /\ data \in SeqsUpTo(KeyedRowsOf(_class), MaxPeerRows)
    /\ pc = "start"
    /\ InitState
    /\ faults = 0 /\ drops = 0
    /\ w = WIdle /\ dsq = QIdle /\ rd = RdIdle /\ call = CallIdle
    /\ \E rows_ \in SeqsUpTo(KeyedRowsOf(_class), MaxPeerRows) :
          peer = insert_data(rows_)

\* the steps of the first instance (a call of insert_data) and of the second
NextPeers ==
    \/ Call
    \/ CreateAll
    \/ OpenSession
    \/ ReadAllPks
    \/ FilterRow
    \/ FilterReturn
    \/ BulkSave
    \/ Commit
    \/ AfterInsert
    \/ Rerun
    \/ PeerReadAllPks
    \/ PeerFilterRow
    \/ PeerBulkSave
    \/ PeerCommit

SpecPeers == InitPeers /\ [][NextPeers]_vars

\* session.commit() returns, and the store has not kept one of the rows that
\* bulk_save_objects sent (an INSERT the store discards without an error).
\* insert_data returns as after any commit.
CommitDrop ==
    /\ pc = "ins_commit"
    /\ drops > 0
    /\ \E k \in pending \ store :
         /\ store' = pending \ {k}
         /\ lost' = lost \cup {k}
    /\ drops' = drops - 1
    /\ sessions' = sessions - 1
    /\ returned' = [inserted |-> objs, existing |-> existing_objs,
                    failed |-> failed_objs]
    /\ pc' = "returned"
    /\ UNCHANGED <<inputs, run, gen, filter_vars, pending, totals, exc,
                   results, faults, sleeps, other_calls>>

InitDrop == InitCall /\ faults = 0 /\ drops = 1

NextDrop == Next \/ CommitDrop

SpecDrop == InitDrop /\ [][NextDrop]_vars

\* --------------------------------------------- transient store errors
\* The OperationalError the store raises at a call the code makes through
\* try_until_allowed: the wrapper sleeps and makes the call again (the step
\* that follows is the call that returns).
Retried ==
    LET r == try_until_allowed(Raise("OperationalError"))
    IN  /\ faults > 0
        /\ faults' = faults - 1
        /\ IF r.do = "sleep_and_continue"
           THEN /\ sleeps' = sleeps + 1
                /\ UNCHANGED <<pc, exc, results, dsq, rd>>
           ELSE /\ UNCHANGED sleeps
                /\ IF op \in {"insert_data", "_insert_data"}
                   THEN End("raised", r.exc) /\ UNCHANGED <<dsq, rd>>
                   ELSE /\ exc' = r.exc
                        /\ dsq' = IF op = "db_session_query"
                                  THEN [dsq EXCEPT !.at = "raised"] ELSE dsq
                        /\ rd' = IF op = "download_vectors"
                                 THEN [rd EXCEPT !.at = "raised"] ELSE rd
                        /\ UNCHANGED <<pc, results>>

\* try_until_allowed(Base.metadata.create_all, engine), create_all raising
CreateAllFails ==
    /\ pc \in {"fod_create_all", "ins_create_all"}
    /\ Retried
    /\ UNCHANGED <<inputs, store, run, gen, filter_vars, pending, returned,
                   totals, sessions, drops, lost, w, peer,
                   call>>

\* try_until_allowed(sessionmaker, engine) or try_until_allowed(Session),
\* the call raising
OpenSessionFails ==
    /\ pc \in {"fod_session", "ins_session"}
    /\ Retried
    /\ UNCHANGED <<inputs, store, run, gen, filter_vars, pending, returned,
                   totals, sessions, drops, lost, w, peer,
                   call>>

\* A store call that insert_data and the filter make directly raises
\* OperationalError: nothing catches it.
Propagates ==
    /\ faults > 0
    /\ faults' = faults - 1
    /\ End("raised", "OperationalError")
    /\ UNCHANGED <<inputs, store, run, gen, filter_vars, pending, returned,
                   totals, sessions, sleeps, drops, lost, other_calls>>

\* session.query(*fields).all() raises
ReadAllPksFails == pc = "fod_read_pks" /\ Propagates

\* session.query(exists(_class, **row)).scalar() raises
ExistsFails ==
    /\ pc = "fod_row"
    /\ irow <= Len(batch)
    /\ issues_exists_query(impl, cols, low_memory, all_pks, data[batch[irow]])
    /\ Propagates

\* session.bulk_save_objects(objs) raises
BulkSaveFails == pc = "ins_bulk_save" /\ Propagates

\* session.commit() raises
CommitFails == pc = "ins_commit" /\ Propagates

\* --------------------------------------------------------- an aborted run
\* The process that runs the writer is killed from outside: what its open
\* transaction has saved is rolled back, what it has committed stays.
Kill ==
    /\ pc \notin {"start", "done", "raised", "other"}
    /\ faults > 0
    /\ faults' = faults - 1
    /\ sessions' = 0
    /\ End("raised", "Killed")
    /\ UNCHANGED <<inputs, store, run, gen, filter_vars, pending, returned,
                   totals, sleeps, drops, lost, other_calls>>

InitAbort == InitCall /\ faults = MaxFaults /\ drops = 0

NextAbort == Next \/ Kill \/ BulkSaveFails \/ CommitFails

SpecAbort == InitAbort /\ [][NextAbort]_vars

\* ------------------------------------------------------ db_session_query
\* The source is a table of N rows whose ids are 1..N; it does not change and
\* the store returns its rows in id order.  The rows a query returns that
\* skips the ids up to lo and takes at most `limit` rows (None: all of them).
None == 0 - 1
Min(a, b) == IF a < b THEN a ELSE b
rows_from(N, lo, limit) ==
    LET left == IF lo >= N THEN 0 ELSE N - lo
        m == IF limit = None THEN left ELSE Min(limit, left)
    IN  [k \in 1..m |-> lo + k]

writer_vars == <<inputs, store, pc, run, gen, filter_vars, pending, returned,
                 totals, results, drops, lost, w, peer,
                   call>>

\* `while n_results == chunksize`
while_condition_forever(n_results, chunksize) == TRUE
while_condition(n_results, chunksize) == n_results = chunksize

\* `if n*chunksize + n_results == limit`
limit_reached(n, chunksize, n_results, limit) ==
    n * chunksize + n_results = limit

\* a call db_session_query(query, engine, chunksize, limit, offset) on a
\* query of N rows: n = 0, n_results = chunksize.  chunks (the number of rows
\* each chunk query of this call returned) and yielded (the rows this call
\* yielded) record what the call did.
db_session_query(N, chunksize, limit, offset) ==
    [at |-> "while", N |-> N, chunksize |-> chunksize,
     limit |-> limit, offset0 |-> offset, offset |-> offset,
     n |-> 0, n_results |-> chunksize, rows |-> <<>>,
     delivered |-> <<>>, invocations |-> 1, chunks |-> <<>>, yielded |-> 0]

\* the consumer's `for db, row in db_session_query(query, engine, chunksize,
\* limit, offset)`
InitQuery ==
    /\ op = "db_session_query"
    /\ NoWriter
    /\ drops = 0
    /\ w = WIdle /\ rd = RdIdle /\ call = CallIdle
    /\ \E N \in 0..MaxSource, chunksize \in 1..MaxChunk,
          limit \in {None} \cup 0..MaxSource, offset \in 0..1 :
         dsq = db_session_query(N, chunksize, limit, offset)

\* `while n_results == chunksize` goes on: `with db_session(engine) as db`
\* opens the session (both calls through try_until_allowed); n_results = 0
DsqOpenSession ==
    /\ dsq.at = "while"
    /\ while_condition(dsq.n_results, dsq.chunksize)
    /\ try_until_allowed(Return(0)).do = "return"
    /\ sessions' = sessions + 1
    /\ dsq' = [dsq EXCEPT !.at = "query", !.n_results = 0]
    /\ UNCHANGED <<writer_vars, exc, faults, sleeps, rd>>

\* db.query(query).offset(offset + n*chunksize).limit(chunksize) is run
DsqQuery ==
    /\ dsq.at = "query"
    /\ LET rows == rows_from(dsq.N, dsq.offset + dsq.n * dsq.chunksize,
                             dsq.chunksize)
       IN  dsq' = [dsq EXCEPT !.at = "for", !.rows = rows,
                     !.chunks = Append(@, Len(rows))]
    /\ UNCHANGED <<writer_vars, exc, sessions, faults, sleeps, rd>>

\* the next row of the chunk: n_results += 1; yield db, row
DsqYield ==
    /\ dsq.at = "for"
    /\ dsq.rows # <<>>
    /\ dsq' = [dsq EXCEPT !.at = "yielded", !.n_results = @ + 1,
                 !.yielded = @ + 1,
                 !.delivered = Append(@, Head(dsq.rows)),
                 !.rows = Tail(@)]
    /\ UNCHANGED <<writer_vars, exc, sessions, faults, sleeps, rd>>

\* the consumer asks for the next row and the generator goes on after the
\* yield: `if n*chunksize + n_results == limit: return` leaves the with
\* block (commit, close)
DsqNext ==
    /\ dsq.at = "yielded"
    /\ IF limit_reached(dsq.n, dsq.chunksize, dsq.n_results, dsq.limit)
       THEN /\ dsq' = [dsq EXCEPT !.at = "exhausted"]
            /\ sessions' = sessions - 1
       ELSE /\ dsq' = [dsq EXCEPT !.at = "for"]
            /\ UNCHANGED sessions
    /\ UNCHANGED <<writer_vars, exc, faults, sleeps, rd>>

\* the chunk has no more rows: the with block ends (commit, close); n += 1
DsqEndChunk ==
    /\ dsq.at = "for"
    /\ dsq.rows = <<>>
    /\ sessions' = sessions - 1
    /\ dsq' = [dsq EXCEPT !.at = "while", !.n = @ + 1]
    /\ UNCHANGED <<writer_vars, exc, faults, sleeps, rd>>

\* `while n_results == chunksize` ends: return
DsqReturn ==
    /\ dsq.at = "while"
    /\ ~while_condition(dsq.n_results, dsq.chunksize)
    /\ dsq' = [dsq EXCEPT !.at = "exhausted"]
    /\ UNCHANGED <<writer_vars, exc, sessions, faults, sleeps, rd>>

\* sessionmaker or Session raises OperationalError in db_session
DsqOpenSessionFails ==
    /\ dsq.at = "while"
    /\ while_condition(dsq.n_results, dsq.chunksize)
    /\ Retried
    /\ UNCHANGED <<inputs, store, run, gen, filter_vars, pending, returned,
                   totals, sessions, drops, lost, w, peer,
                   call>>

\* the chunk's query raises OperationalError: db_session rolls back, closes
\* the session and raises it again, out of the generator
DsqQueryFails ==
    /\ dsq.at = "query"
    /\ faults > 0
    /\ faults' = faults - 1
    /\ sessions' = sessions - 1
    /\ exc' = "OperationalError"
    /\ dsq' = [dsq EXCEPT !.at = "raised"]
    /\ UNCHANGED <<writer_vars, sleeps, rd>>

\* The consumer fails on the row it was given and leaves its loop.  The
\* generator is closed (GeneratorExit at the yield: rollback, close) when it
\* is collected: now, or not before the failure has been handled.
DsqAbandon ==
    /\ dsq.at = "yielded"
    /\ dsq.invocations < MaxRuns
    /\ \E collected \in BOOLEAN :
         sessions' = IF collected THEN sessions - 1 ELSE sessions
    /\ dsq' = [dsq EXCEPT !.at = "abandoned"]
    /\ UNCHANGED <<writer_vars, exc, faults, sleeps, rd>>

\* The consumer calls db_session_query again, with the rows it was given so
\* far as the offset.
DsqReinvoke ==
    /\ dsq.at \in {"raised", "abandoned"}
    /\ dsq.invocations < MaxRuns
    /\ exc' = ""
    /\ dsq' = [dsq EXCEPT !.at = "while",
                 !.offset = dsq.offset0 + Len(dsq.delivered),
                 !.n = 0, !.n_results = dsq.chunksize, !.rows = <<>>,
                 !.chunks = <<>>, !.yielded = 0,
                 !.invocations = @ + 1]
    /\ UNCHANGED <<writer_vars, sessions, faults, sleeps, rd>>

NextQuery ==
    \/ DsqOpenSession
    \/ DsqQuery
    \/ DsqYield
    \/ DsqNext
    \/ DsqEndChunk
    \/ DsqReturn
    \/ DsqOpenSessionFails
    \/ DsqQueryFails
    \/ DsqAbandon
    \/ DsqReinvoke

\* db_session_query with a consumer that goes on asking for rows, on a store
\* that may refuse a connection or fail a query
InitReader == InitQuery /\ faults = MaxFaults
SpecReader == InitReader /\ [][NextQuery]_vars /\ WF_vars(NextQuery)

\* ------------------------------------------- download_vectors, read_data
\* An id of the arrays is '' (0 here), the id of a source row (1..N), or what
\* np.empty left in the slot: a string that is not '' and sorts before every
\* id, or after every id.
Empty == 0
GarbageLow == 0 - 2
GarbageHigh == MaxSource + 1
Garbage == {GarbageLow, GarbageHigh}

\* ids = np.empty((count, ), dtype=STR_TYPE): the array is not initialised
np_empty(count) == [1..count -> {Empty} \cup Garbage]
\* sum(ids != '')
count_nonempty(ids) == Cardinality({k \in DOMAIN ids : ids[k] # Empty})

\* The rows of the table in the order in which the store returns them to a
\* query that has no ORDER BY: a sequence of the ids 1..N.
KeyOrder(N) == [k \in 1..N |-> k]
Take(s, limit) ==
    IF limit = None \/ limit >= Len(s) THEN s ELSE SubSeq(s, 1, limit)

\* query_and_bundle: q.offset(offset) if filter_ is None else
\* q.filter(id_field > filter_), then q.limit(limit); no order_by
query_and_bundle(order, offset, limit, filter_) ==
    IF filter_ = None
    THEN Take(SubSeq(order, offset + 1, Len(order)), limit)
    ELSE Take(SelectSeq(order, LAMBDA id : id > filter_), limit)

\* a call download_vectors(orm, id_field, database, chunksize, max_chunks)
\* on a table of N rows that the store returns in the order `order`, with d
\* chunks that will not decode
download_vectors(N, chunksize, max_chunks, d, order) ==
    [at |-> "prefill_inputs", N |-> N, chunksize |-> chunksize,
     max_chunks |-> max_chunks, decode_errors |-> d, order |-> order,
     count |-> 0, ids |-> <<>>, ids0 |-> <<>>, offset |-> 0,
     filter_ |-> None, n_chunks |-> 0, mc |-> 0, limit |-> None,
     calls |-> 0, queries |-> 0, delivered |-> <<>>]

\* the store returns the rows in key order
InitDownload ==
    /\ op = "download_vectors"
    /\ NoWriter
    /\ drops = 0
    /\ w = WIdle /\ dsq = QIdle /\ call = CallIdle
    /\ \E N \in 0..MaxSource, chunksize \in 1..MaxChunk,
          max_chunks \in {None} \cup 0..MaxChunk, d \in 0..MaxFaults :
         rd = download_vectors(N, chunksize, max_chunks, d, KeyOrder(N))

\* `if n_chunks >= max_chunks: break`
break_on_max_chunks_never(n_chunks, max_chunks) == FALSE
break_on_max_chunks(n_chunks, max_chunks) == n_chunks >= max_chunks

\* data, ids = prefill_inputs(orm, database): the count of the rows, one
\* vector for the width (.one() raises when there is no row), np.empty
RdPrefill ==
    /\ rd.at = "prefill_inputs"
    /\ IF rd.N = 0
       THEN /\ exc' = "NoResultFound"
            /\ rd' = [rd EXCEPT !.at = "raised"]
       ELSE /\ \E a \in np_empty(rd.N) :
                 rd' = [rd EXCEPT !.at = "read_data", !.count = rd.N,
                          !.ids = a, !.ids0 = a]
            /\ UNCHANGED exc
    /\ UNCHANGED <<writer_vars, sessions, faults, sleeps, dsq>>

\* read_data(data, ids, ...) up to its while loop
RdStart ==
    /\ rd.at = "read_data"
    /\ LET offset == count_nonempty(rd.ids)
       IN  rd' = [rd EXCEPT
                    !.at = "while",
                    !.offset = offset,
                    !.filter_ = IF offset = 0 THEN None ELSE rd.ids[offset],
                    !.n_chunks = IF rd.max_chunks = None THEN 0 - 1 ELSE 0,
                    !.mc = IF rd.max_chunks = None THEN 0 ELSE rd.max_chunks,
                    !.calls = @ + 1, !.queries = 0]
    /\ UNCHANGED <<writer_vars, exc, sessions, faults, sleeps, dsq>>

\* `while offset < count` goes on and n_chunks < max_chunks: limit is set and
\* `with db_session(engine) as session` opens the session
RdOpenSession ==
    /\ rd.at = "while"
    /\ rd.offset < rd.count
    /\ ~break_on_max_chunks(rd.n_chunks, rd.mc)
    /\ try_until_allowed(Return(0)).do = "return"
    /\ sessions' = sessions + 1
    /\ rd' = [rd EXCEPT !.at = "query",
                !.limit = IF rd.offset + rd.chunksize < rd.count
                          THEN rd.chunksize ELSE None]
    /\ UNCHANGED <<writer_vars, exc, faults, sleeps, dsq>>

\* The chunk is read (query_and_bundle), the session is closed, and the
\* arrays, the filter, the offset and n_chunks are updated.  zip(*rows) of no
\* rows and a chunk longer than the rest of the array raise ValueError.
RdQuery ==
    /\ rd.at = "query"
    /\ sessions' = sessions - 1
    /\ LET _ids == query_and_bundle(rd.order, rd.offset, rd.limit, rd.filter_)
           m == Len(_ids)
       IN  IF m = 0 \/ rd.offset + m > rd.count
           THEN /\ exc' = "ValueError"
                /\ rd' = [rd EXCEPT !.at = "raised", !.queries = @ + 1]
           ELSE /\ rd' = [rd EXCEPT
                            !.at = "while",
                            !.queries = @ + 1,
                            !.delivered = @ \o _ids,
                            !.ids = [k \in 1..rd.count |->
                                       IF k > rd.offset /\ k <= rd.offset + m
                                       THEN _ids[k - rd.offset] ELSE rd.ids[k]],
                            !.filter_ = _ids[m],
                            !.offset = @ + rd.chunksize,
                            !.n_chunks = IF rd.mc > 0 THEN @ + 1 ELSE @]
                /\ UNCHANGED exc
    /\ UNCHANGED <<writer_vars, faults, sleeps, dsq>>

\* the while loop of read_data ends (or breaks on max_chunks); read_data
\* returns and download_vectors returns data, ids
RdReturn ==
    /\ rd.at = "while"
    /\ rd.offset >= rd.count \/ break_on_max_chunks(rd.n_chunks, rd.mc)
    /\ rd' = [rd EXCEPT !.at = "done"]
    /\ UNCHANGED <<writer_vars, exc, sessions, faults, sleeps, dsq>>

\* The rows of the chunk do not decode: json.JSONDecodeError leaves the with
\* block (rollback, close) and read_data; download_vectors catches it and
\* calls read_data again.
RdDecodeError ==
    /\ rd.at = "query"
    /\ rd.decode_errors > 0
    /\ sessions' = sessions - 1
    /\ rd' = [rd EXCEPT !.at = "read_data", !.decode_errors = @ - 1,
                !.queries = @ + 1]
    /\ UNCHANGED <<writer_vars, exc, faults, sleeps, dsq>>

\* sessionmaker or Session raises OperationalError in db_session
RdOpenSessionFails ==
    /\ rd.at = "while"
    /\ rd.offset < rd.count
    /\ ~break_on_max_chunks(rd.n_chunks, rd.mc)
    /\ Retried
    /\ UNCHANGED <<inputs, store, run, gen, filter_vars, pending, returned,
                   totals, sessions, drops, lost, w, peer,
                   call>>

\* The chunk's query raises OperationalError: it leaves the with block
\* (rollback, close), read_data and download_vectors, which catches only
\* json.JSONDecodeError.
RdQueryFails ==
    /\ rd.at = "query"
    /\ faults > 0
    /\ faults' = faults - 1
    /\ sessions' = sessions - 1
    /\ exc' = "OperationalError"
    /\ rd' = [rd EXCEPT !.at = "raised", !.queries = @ + 1]
    /\ UNCHANGED <<writer_vars, sleeps, dsq>>

NextDownload ==
    \/ RdPrefill
    \/ RdStart
    \/ RdOpenSession
    \/ RdQuery
    \/ RdReturn
    \/ RdDecodeError
    \/ RdOpenSessionFails
    \/ RdQueryFails

\* download_vectors, whose steps are all taken in the end, on a store that
\* returns the rows in key order and may refuse a connection or fail a query
InitVectors == InitDownload /\ faults = MaxFaults
SpecVectors == InitVectors /\ [][NextDownload]_vars /\ WF_vars(NextDownload)

\* download_vectors on a store that returns the rows of a query without
\* ORDER BY in any order
InitScan ==
    /\ op = "download_vectors"
    /\ NoWriter
    /\ faults = MaxFaults /\ drops = 0
    /\ w = WIdle /\ dsq = QIdle /\ call = CallIdle
    /\ \E N \in 0..MaxScan, chunksize \in 1..MaxChunk,
          max_chunks \in {None} \cup 0..MaxChunk, d \in 0..MaxFaults :
         \E order \in Permutations(1..N) :
            rd = download_vectors(N, chunksize, max_chunks, d, order)

SpecScan == InitScan /\ [][NextDownload]_vars

\* ------------------------ the writer and the readers with transient errors
InitTransient ==
    /\ faults = MaxFaults
    /\ \/ InitCall /\ drops = 0 /\ Len(data) <= MaxFaultyRows
       \/ InitQuery
       \/ InitDownload

NextTransient ==
    \/ Next
    \/ CreateAllFails
    \/ OpenSessionFails
    \/ ReadAllPksFails
    \/ ExistsFails
    \/ BulkSaveFails
    \/ CommitFails
    \/ NextQuery
    \/ NextDownload

SpecTransient == InitTransient /\ [][NextTransient]_vars

\* ------------------------------------- a direct call of try_until_allowed
\* What the call f(*args, **kwargs) does when try_until_allowed makes it: it
\* raises OperationalError while wc.fails calls are still to fail, then it
\* does wc.final: it returns a value, or raises (OperationalError: for ever).
f_call(wc) == IF wc.fails > 0 THEN Raise("OperationalError") ELSE wc.final

\* 0 is None
FValues == {0, 1}
FExceptions == {"OperationalError", "Exception", "IntegrityError"}
FArgs == {<<>>, <<"engine">>}
Saturate(k) == IF k < MaxCalls THEN k + 1 ELSE MaxCalls

InitRetry ==
    /\ op = "try_until_allowed"
    /\ NoWriter
    /\ faults = 0 /\ drops = 0
    /\ dsq = QIdle /\ rd = RdIdle /\ call = CallIdle
    /\ \E a \in FArgs, n \in 0..MaxFails,
          fin \in {Return(v) : v \in FValues} \cup {Raise(e) : e \in FExceptions} :
         w = [at |-> "try", args |-> a, n |-> n, fails |-> n, final |-> fin,
              calls |-> 0, seen |-> {}, value |-> 0, exc |-> ""]

\* one pass of `while True`: value = f(*args, **kwargs) in the try statement
TryCall ==
    /\ w.at = "try"
    /\ LET r == try_until_allowed(f_call(w))
       IN  w' = [w EXCEPT
                   !.calls = Saturate(@),
                   !.seen = @ \cup {w.args},
                   !.fails = IF @ > 0 THEN @ - 1 ELSE 0,
                   !.at = CASE r.do = "sleep_and_continue" -> "sleep"
                            [] r.do = "return" -> "returned"
                            [] OTHER -> "raised",
                   !.value = IF r.do = "return" THEN r.value ELSE @,
                   !.exc = r.exc]
    /\ UNCHANGED <<inputs, store, pc, run, gen, filter_vars, pending, returned,
                   totals, exc, sessions, results, env_vars, lost, dsq, rd,
                   peer, call>>

\* except OperationalError: logging.warning; time.sleep(5); continue
TrySleep ==
    /\ w.at = "sleep"
    /\ sleeps' = Saturate(sleeps)
    /\ w' = [w EXCEPT !.at = "try"]
    /\ UNCHANGED <<inputs, store, pc, run, gen, filter_vars, pending, returned,
                   totals, exc, sessions, results, faults, drops, lost, dsq, rd,
                   peer, call>>

NextRetry == TryCall \/ TrySleep

\* the thread that runs try_until_allowed keeps running
SpecRetry == InitRetry /\ [][NextRetry]_vars /\ WF_vars(NextRetry)

\* ---------------------------------------------------------------- setup_es
\* An index name is a str of the characters \w of the regular expression: the
\* digits 0..9, a letter and the underscore.  "_dev" is the underscore and the
\* letter.
Letter == 10
Underscore == 11
Tag == <<Letter>>
DevSuffix == <<Underscore, Letter>>
IndexNames ==
    {Tag, Tag \o DevSuffix} \cup {Tag \o IntToDigits(v) : v \in 0..MaxVersion}
EsModes == {"prod", "dev", "dave"}

endswith(q, suffix) ==
    /\ Len(q) >= Len(suffix)
    /\ SubSeq(q, Len(q) - Len(suffix) + 1, Len(q)) = suffix
startswith(q, prefix) ==
    Len(q) >= Len(prefix) /\ SubSeq(q, 1, Len(prefix)) = prefix

\* assert_correct_config(test, config, key) with key = f"{dataset}_{es_mode}":
\* the exception it raises, "" for none
assert_correct_config(test, es_mode, index) ==
    IF test /\ es_mode # "dev" THEN "ValueError"
    ELSE IF ~test /\ es_mode # "prod" THEN "ValueError"
    ELSE IF test /\ ~endswith(index, DevSuffix) THEN "ValueError"
    ELSE ""

\* re.findall(r'(\w+)(\d+)', name) on a name of \w characters: \w+ is greedy
\* and gives back characters until a digit follows it, so the first match has
\* the characters before the last digit of the name as its first group and
\* that digit as its second; no match without a digit after the first
\* character
re_findall(name) ==
    LET ds == {k \in 2..Len(name) : name[k] \in 0..9}
    IN  IF ds = {} THEN <<>>
        ELSE LET k == CHOOSE k \in ds : \A j \in ds : j <= k
             IN  << <<SubSeq(name, 1, k - 1), <<name[k]>> >> >>

\* `if increment_version:` of setup_es: the exception raised ("" for none)
\* and es_config['index']
new_index(es_mode, old_index) ==
    LET found == re_findall(old_index)
    IN  IF es_mode = "prod" /\ found = <<>>
        THEN [exc |-> "IndexError", index |-> old_index]
        ELSE LET tag == IF es_mode = "prod" THEN found[1][1] ELSE old_index
                 new == IF es_mode = "prod"
                        THEN tag \o IntToDigits(DigitsToInt(found[1][2]) + 1)
                        ELSE old_index \o <<0>>
             IN  IF \/ new = old_index
                    \/ ~startswith(old_index, tag)
                    \/ ~startswith(new, tag)
                    \/ Len(new) - Len(old_index) > 1
                 THEN [exc |-> "ValueError", index |-> new]
                 ELSE [exc |-> "", index |-> new]

\* a call setup_es(es_mode, test_mode, drop_and_recreate, dataset, aliases,
\* increment_version) with the index `index` in the config of the dataset,
\* on an Elasticsearch that has the indices `indices`; `calls` are the calls
\* of es.indices.delete and es.indices.create it has made, `existed` what
\* es.indices.exists answered
setup_es(es_mode, test_mode, drop_and_recreate, increment_version, index, indices) ==
    [at |-> "start", es_mode |-> es_mode, test_mode |-> test_mode,
     drop_and_recreate |-> drop_and_recreate,
     increment_version |-> increment_version, config_index |-> index,
     index |-> index, old_index |-> <<>>, indices |-> indices,
     exists |-> FALSE, existed |-> FALSE, calls |-> <<>>, exc |-> ""]

InitEs ==
    /\ op = "setup_es"
    /\ NoWriter
    /\ faults = 0 /\ drops = 0
    /\ w = WIdle /\ dsq = QIdle /\ rd = RdIdle
    /\ \E es_mode \in EsModes, test_mode \in BOOLEAN,
          drop_and_recreate \in BOOLEAN, increment_version \in BOOLEAN,
          index \in IndexNames, present \in BOOLEAN :
         LET target == IF increment_version
                       THEN new_index(es_mode, index).index ELSE index
         IN  call = setup_es(es_mode, test_mode, drop_and_recreate,
                             increment_version, index,
                             IF present THEN {target} ELSE {})

call_raises(e) == call' = [call EXCEPT !.at = "raised", !.exc = e]
other_vars == <<inputs, store, pc, run, gen, filter_vars, pending, returned,
                totals, exc, sessions, results, env_vars, lost, w, dsq, rd,
                peer>>

\* setup_es up to the connection: es_mode, the config, the new index
EsConfig ==
    /\ op = "setup_es" /\ call.at = "start"
    /\ LET e == assert_correct_config(call.test_mode, call.es_mode,
                                      call.config_index)
           n == new_index(call.es_mode, call.config_index)
       IN  IF call.es_mode \notin {"prod", "dev"} THEN call_raises("ValueError")
           ELSE IF e # "" THEN call_raises(e)
           ELSE IF ~call.increment_version
           THEN call' = [call EXCEPT !.at = "connected"]
           ELSE IF n.exc # "" THEN call_raises(n.exc)
           ELSE call' = [call EXCEPT !.at = "connected", !.index = n.index,
                                     !.old_index = call.config_index]
    /\ UNCHANGED other_vars

\* exists = es.indices.exists(index=_index)
EsExists ==
    /\ op = "setup_es" /\ call.at = "connected"
    /\ call' = [call EXCEPT !.at = "drop",
                   !.exists = call.index \in call.indices,
                   !.existed = call.index \in call.indices]
    /\ UNCHANGED other_vars

\* a drop that does not look at test_mode
drop_in_any_mode(c) == c.drop_and_recreate /\ c.exists
\* `drop_and_recreate and test_mode and exists`
drop_condition(c) == c.drop_and_recreate /\ c.test_mode /\ c.exists

\* if drop_and_recreate and test_mode and exists: delete; exists = False
EsDelete ==
    /\ op = "setup_es" /\ call.at = "drop"
    /\ call' = IF drop_condition(call)
               THEN [call EXCEPT !.at = "create", !.exists = FALSE,
                                 !.indices = @ \ {call.index},
                                 !.calls = Append(@, "delete")]
               ELSE [call EXCEPT !.at = "create"]
    /\ UNCHANGED other_vars

\* if not exists: create; return es, es_config
EsCreate ==
    /\ op = "setup_es" /\ call.at = "create"
    /\ call' = IF ~call.exists
               THEN [call EXCEPT !.at = "returned",
                                 !.indices = @ \cup {call.index},
                                 !.calls = Append(@, "create")]
               ELSE [call EXCEPT !.at = "returned"]
    /\ UNCHANGED other_vars

NextEs == EsConfig \/ EsExists \/ EsDelete \/ EsCreate

SpecEs == InitEs /\ [][NextEs]_vars

\* ------------------------------------------------------- MLTask batches
\* math.ceil(a/b) and math.floor(a/b) for ints a >= 0, b > 0 that a float
\* holds exactly
ceil(a, b) == (a + b - 1) \div b
floor(a, b) == a \div b

\* set_batch_parameters with total = self.get_input_length(): the exception
\* it raises ("" for none), self.batch_size and self.n_batches after it
set_batch_parameters(batch_size_, n_batches, total) ==
    IF batch_size_ = None /\ n_batches = None
    THEN [exc |-> "ValueError", batch_size |-> batch_size_,
          n_batches |-> n_batches]
    ELSE IF n_batches # None
    THEN LET n == IF n_batches > total THEN total ELSE n_batches
         IN  [exc |-> "", batch_size |-> ceil(total, n), n_batches |-> n]
    ELSE LET size == IF batch_size_ > total THEN total ELSE batch_size_
             n_full == floor(total, size)
             n_unfull == IF total % size > 0 THEN 1 ELSE 0
         IN  [exc |-> "", batch_size |-> size, n_batches |-> n_full + n_unfull]

calculate_batch_indices(batch_size_, n_batches, i, total) ==
    IF \/ batch_size_ = None \/ n_batches = None
       \/ batch_size_ > total \/ n_batches > total
    THEN [exc |-> "ValueError", first_index |-> 0, last_index |-> 0]
    ELSE IF i >= n_batches
    THEN [exc |-> "ValueError", first_index |-> 0, last_index |-> 0]
    ELSE [exc |-> "", first_index |-> i * batch_size_,
          last_index |-> IF i = n_batches - 1 THEN total
                         ELSE (i + 1) * batch_size_]

\* yield_batch of an MLTask without intermediate inputs, whose input has
\* `total` lines: c.yielded are the (first_idx, last_idx) it has yielded
yield_batch(batch_size_, n_batches, total) ==
    [at |-> "start", batch_size |-> batch_size_, n_batches |-> n_batches,
     total |-> total, i |-> 0, yielded |-> <<>>, beyond |-> "", exc |-> ""]

InitBatches ==
    /\ op = "yield_batch"
    /\ NoWriter
    /\ faults = 0 /\ drops = 0
    /\ w = WIdle /\ dsq = QIdle /\ rd = RdIdle
    /\ \E batch_size_ \in {None} \cup 1..(MaxTotal + 1),
          n_batches \in {None} \cup 1..(MaxTotal + 1), total \in 1..MaxTotal :
         call = yield_batch(batch_size_, n_batches, total)

\* total = self.set_batch_parameters()
SetBatchParameters ==
    /\ op = "yield_batch" /\ call.at = "start"
    /\ LET r == set_batch_parameters(call.batch_size, call.n_batches,
                                     call.total)
       IN  IF r.exc # "" THEN call_raises(r.exc)
           ELSE call' = [call EXCEPT !.at = "loop",
                                     !.batch_size = r.batch_size,
                                     !.n_batches = r.n_batches]
    /\ UNCHANGED other_vars

\* one pass of `for i in range(0, self.n_batches)`, up to its yield, or the
\* end of the loop
YieldBatch ==
    /\ op = "yield_batch" /\ call.at = "loop"
    /\ LET r == calculate_batch_indices(call.batch_size, call.n_batches,
                                        call.i, call.total)
       IN  IF call.i >= call.n_batches
           THEN call' = [call EXCEPT !.at = "stopped"]
           ELSE IF r.exc # "" THEN call_raises(r.exc)
           ELSE call' = [call EXCEPT
                           !.i = @ + 1,
                           !.yielded = Append(@, <<r.first_index,
                                                   r.last_index>>)]
    /\ UNCHANGED other_vars

\* a caller asks calculate_batch_indices(i, total) for an i that is not less
\* than n_batches
CalculateBeyond ==
    /\ op = "yield_batch" /\ call.at = "stopped"
    /\ \E i \in call.n_batches..(call.n_batches + 1) :
         LET r == calculate_batch_indices(call.batch_size, call.n_batches, i,
                                          call.total)
         IN  call' = [call EXCEPT !.at = "asked",
                        !.beyond = IF r.exc # "" THEN r.exc ELSE "returned"]
    /\ UNCHANGED other_vars

NextBatches == SetBatchParameters \/ YieldBatch \/ CalculateBeyond

SpecBatches == InitBatches /\ [][NextBatches]_vars

\* ------------------------------------------------ BatchClient.hard_terminate
\* the answers of self._client.describe_jobs(jobs=[job_id])
Responses ==
    {[code |-> 200, jobs |-> <<>>], [code |-> 500, jobs |-> <<>>]}
      \cup {[code |-> 200, jobs |-> <<st>>] :
               st \in {"RUNNING", "FAILED", "SUCCEEDED"}}

\* get_job_status(job_id) on the answer `response`: the status it returns, or
\* "Exception" if it raises
get_job_status(response) ==
    IF response.code # 200 THEN "Exception"
    ELSE IF Len(response.jobs) = 0 THEN "FAILED"
    ELSE response.jobs[1]

\* `if len(job_ids) > 0 and iattempt < 10`
still_hanging(n, iattempt) == n > 0 /\ iattempt < 10

\* a hard_terminate that never adds its note to the reason
never_noted(iattempt) == FALSE
\* `if iattempt >= 10`
could_not_be_killed(iattempt) == iattempt >= 10

\* a call hard_terminate(job_ids, reason) with len(job_ids) = n: c.n is the
\* length of job_ids and c.iattempt the iattempt of the innermost call,
\* c.rounds the calls of hard_terminate so far, c.terminated the terminate_job
\* calls of the innermost one, c.note the number in the note of the reason
hard_terminate(n) ==
    [at |-> "terminate", n |-> n, iattempt |-> 0, rounds |-> 1,
     terminated |-> 0, note |-> None, exc |-> ""]

InitTerminate ==
    /\ op = "hard_terminate"
    /\ NoWriter
    /\ faults = 0 /\ drops = 0
    /\ w = WIdle /\ dsq = QIdle /\ rd = RdIdle
    /\ \E n \in 0..MaxJobs : call = hard_terminate(n)

\* for job_id in job_ids: self.terminate_job(...); time.sleep(30)
TerminateJobs ==
    /\ op = "hard_terminate" /\ call.at = "terminate"
    /\ call' = [call EXCEPT !.at = "check", !.terminated = call.n]
    /\ UNCHANGED other_vars

\* the statuses of the jobs, and what follows: the next call of
\* hard_terminate, or the raise
CheckJobs ==
    /\ op = "hard_terminate" /\ call.at = "check"
    /\ \E rs \in [1..call.n -> Responses] :
         LET st == [k \in 1..call.n |-> get_job_status(rs[k])]
             left == Cardinality({k \in 1..call.n :
                                    st[k] \notin {"FAILED", "SUCCEEDED"}})
         IN  IF \E k \in 1..call.n : st[k] = "Exception"
             THEN call_raises("Exception")
             ELSE IF still_hanging(left, call.iattempt)
             THEN call' = [call EXCEPT !.at = "terminate", !.n = left,
                                       !.iattempt = @ + 1, !.rounds = @ + 1,
                                       !.terminated = 0]
             ELSE call' = [call EXCEPT
                             !.at = "raised", !.n = left,
                             !.note = IF could_not_be_killed(call.iattempt)
                                      THEN left ELSE None,
                             !.exc = "BatchJobException"]
    /\ UNCHANGED other_vars

NextTerminate == TerminateJobs \/ CheckJobs

SpecTerminate ==
    InitTerminate /\ [][NextTerminate]_vars /\ WF_vars(NextTerminate)

\* ------------------------------------------------------------------ claims
Occurs(q, x) == Cardinality({i \in DOMAIN q : q[i] = x})

\* the filter has returned its three lists to insert_data
FilterReturned ==
    pc \in {"ins_create_all", "ins_session", "ins_bulk_save", "ins_commit",
            "returned"}

\* C1: when the duplicate filter returns, in either matching mode and in
\* either orm_utils.py, every row of its input is in exactly one of objs,
\* existing_objs and failed_objs, so the three lengths add up to len(data).
C1_CountConservation ==
    FilterReturned =>
        /\ Len(objs) + Len(existing_objs) + Len(failed_objs) = Len(batch)
        /\ \A i \in 1..Len(batch) :
              Occurs(objs \o existing_objs \o failed_objs, batch[i]) = 1

C1_Witness ==
    /\ pc = "ins_create_all"
    /\ Len(objs) = 1 /\ Len(existing_objs) = 1 /\ Len(failed_objs) = 1

AllRows == [k \in 1..Len(data) |-> k]

\* C2: for an entity whose key the filter reads (not store-assigned) and an
\* input whose rows all carry the key fields, a second insert_data on the
\* same input, after a first that returned, returns an empty inserted list,
\* has every row in existing_objs and leaves the table as it was.
C2_IdempotentReinsertion ==
    ( /\ op = "insert_data"
      /\ ~is_auto_pkey(impl, cols)
      /\ \A i \in 1..Len(data) : has_all_pkeys(cols, data[i])
      /\ Len(results) >= 2
      /\ results[1].status = "done" )
    => /\ results[2].status = "done"
       /\ results[2].inserted = <<>>
       /\ results[2].existing = AllRows
       /\ results[2].table = results[1].table

\* the filter has returned and insert_data has not committed yet: the table
\* is the one the filter saw
FilterJustReturned ==
    pc \in {"ins_create_all", "ins_session", "ins_bulk_save", "ins_commit"}

RowOf(j) == data[batch[j]]
KeyOf(j) == pk_tuple(impl, cols, RowOf(j))
Keyed(j) == has_all_pkeys(cols, RowOf(j))
InList(q, x) == \E i \in DOMAIN q : q[i] = x
InInputOrder(q) == \A a, b \in DOMAIN q : a < b => q[a] < q[b]

\* C3: for an entity whose key is not an auto-increment key (one INTEGER
\* column with autoincrement), of the rows of a batch that carry the same
\* primary key tuple, a key that is not in the table, the filter puts the
\* first in objs and every later one in existing_objs, before any commit; each
\* of the lists it returns is in input order.
C3_InBatchDuplicates ==
    (FilterJustReturned /\ ~has_autoincrement_column(cols)) =>
        /\ \A j \in 1..Len(batch) :
              (Keyed(j) /\ ~exists(store, cols, RowOf(j))) =>
                  IF \E i \in 1..(j - 1) : Keyed(i) /\ KeyOf(i) = KeyOf(j)
                  THEN InList(existing_objs, batch[j])
                  ELSE InList(objs, batch[j])
        /\ InInputOrder(objs)
        /\ InInputOrder(existing_objs)
        /\ InInputOrder(failed_objs)

KeyedRows == SelectSeq(batch, LAMBDA k : has_all_pkeys(cols, data[k]))

\* C4: for an entity whose key is not an auto-increment key, a row that lacks
\* a primary-key field goes to failed_objs and to no other list, the filter
\* does not raise on it, and the other rows are classified as they are
\* without it.
C4_MissingKeyFails ==
    ~has_autoincrement_column(cols) =>
        /\ FilterJustReturned =>
              /\ \A j \in 1..Len(batch) : ~Keyed(j) =>
                    /\ InList(failed_objs, batch[j])
                    /\ ~InList(objs, batch[j])
                    /\ ~InList(existing_objs, batch[j])
              /\ LET r == _filter_out_duplicates(impl, cols, low_memory, store,
                                                 data, KeyedRows)
                 IN  r.objs = objs /\ r.existing_objs = existing_objs
        /\ (pc = "raised" /\ results[Len(results)].at = "fod_row") =>
              Keyed(irow)

\* C5: in nesta.core, on the same input and the same table, the filter run
\* with low_memory and without it returns the same three lists.
C5_ModeEquivalence ==
    (FilterJustReturned /\ impl = "core") =>
        LET r == _filter_out_duplicates(impl, cols, ~low_memory, store, data,
                                        batch)
        IN  /\ ~r.raised
            /\ r.objs = objs
            /\ r.existing_objs = existing_objs
            /\ r.failed_objs = failed_objs
\* C6: in a run of _insert_data, once the store has dropped a row at the
\* commit of a batch, the run does not go on to the next batch: it is back
\* from insert_data, about to check the batch, or has raised ValueError there.
C6_ReconciliationSurfaces ==
    (op = "_insert_data" /\ lost # {}) =>
        \/ pc = "returned"
        \/ pc = "raised" /\ exc = "ValueError" /\ results[Len(results)].at = "returned"

\* C7: when f raises an exception that is not OperationalError, on its first
\* call or after n OperationalErrors, try_until_allowed has raised that same
\* exception as soon as f has: f is not called again and there is no sleep
\* after it (with n = 0: one call, no sleep).
C7_OtherExceptionPropagates ==
    (w.at # "idle" /\ w.final.kind \notin {"return", "OperationalError"}) =>
        /\ w.at # "returned"
        /\ w.calls <= w.n + 1
        /\ sleeps <= w.n
        /\ w.calls = w.n + 1 =>
              /\ w.at = "raised" /\ w.exc = w.final.kind
              /\ sleeps = w.n /\ w.seen = {w.args}

C7_Witness ==
    /\ w.at = "raised" /\ w.n = 0 /\ w.exc = "Exception"
    /\ w.calls = 1 /\ sleeps = 0

C8_RetriesUntilReturn ==
    /\ (w.at # "idle" /\ w.final.kind = "return") =>
          /\ w.at # "raised"
          /\ w.at = "returned" =>
                /\ w.value = w.final.value /\ w.calls = w.n + 1
                /\ w.seen = {w.args} /\ sleeps = w.n
    /\ (w.at # "idle" /\ w.final.kind = "OperationalError") =>
          w.at \in {"try", "sleep"}

\* C8: if f raises OperationalError on its first n calls and then returns v,
\* try_until_allowed returns v, after n + 1 calls of f with the arguments it
\* was given and n sleeps, whatever n is; if f raises OperationalError for
\* ever, try_until_allowed neither returns nor raises, it keeps calling f.
C8_RetriesWithoutLimit ==
    /\ []C8_RetriesUntilReturn
    /\ (w.at = "try" /\ w.final.kind = "return") ~> (w.at = "returned")
    /\ (w.at = "try" /\ w.final.kind = "OperationalError") ~> (w.at = "sleep")
    /\ (w.at = "sleep" /\ w.final.kind = "OperationalError") ~> (w.at = "try")

C8_Witness ==
    /\ w.at = "returned" /\ w.n = MaxFails /\ w.calls = MaxFails + 1
    /\ w.value = 1

\* C9 as stated: no call of the writer or of a reader ends with an
\* OperationalError of the store.
C9_TransientNeverPropagates == exc # "OperationalError"

\* the call is at a store call that the code makes through try_until_allowed
WrappedSite ==
    \/ pc \in {"fod_create_all", "fod_session", "ins_create_all", "ins_session"}
    \/ dsq.at = "while"
    \/ rd.at = "while"

\* C9, amended: an OperationalError of table creation or of session creation
\* is absorbed, the call sleeps once and goes on where it was; an
\* OperationalError of the key prefetch, the existence query, the bulk save,
\* the commit or a chunk query ends the call with that OperationalError.
C9_OnlyConnectionsRetried ==
    [][ faults' < faults =>
          IF WrappedSite
          THEN /\ sleeps' = sleeps + 1
               /\ exc' = exc /\ results' = results
               /\ pc' = pc /\ dsq'.at = dsq.at /\ rd'.at = rd.at
          ELSE /\ sleeps' = sleeps
               /\ exc' = "OperationalError"
               /\ pc' = "raised" \/ dsq'.at = "raised" \/ rd'.at = "raised"
      ]_vars

C9_Witness ==
    /\ op = "insert_data" /\ run = 1 /\ pc = "done"
    /\ sleeps = MaxFaults /\ faults = 0
    /\ Len(objs) > 0

Ascending(s) == \A k \in DOMAIN s : s[k] = k

\* C10: a chunked read of the unchanged, ordered source from its start, which
\* may be interrupted and taken up again from the preserved cursor, has
\* delivered the source rows 1, 2, 3, ... with no repeat and no gap: to the
\* consumer of db_session_query at every moment, all N of them when the
\* generator is exhausted with no limit; to the ids array of read_data, whose
\* first `offset` slots hold the rows 1..offset whenever read_data is in its
\* loop, and which holds all N rows when download_vectors returns with no
\* max_chunks.
C10_ChunkedReadResumption ==
    /\ (op = "db_session_query" /\ dsq.offset0 = 0) =>
          /\ Ascending(dsq.delivered)
          /\ (dsq.at = "exhausted" /\ dsq.limit = None) =>
                Len(dsq.delivered) = dsq.N
    /\ (op = "download_vectors" /\ rd.at = "while") =>
          \A k \in 1..Min(rd.offset, rd.count) : rd.ids[k] = k
    /\ (op = "download_vectors" /\ rd.at = "done" /\ rd.max_chunks = None) =>
          /\ Len(rd.ids) = rd.N
          /\ Ascending(rd.ids)

NonDecreasing(s) == \A a, b \in DOMAIN s : a < b => s[a] <= s[b]

\* C11: the rows that one download reads with the filter id > last-read id,
\* into arrays that start with every id '', come in non-decreasing key
\* order, whatever order the store returns the rows of a query in.
C11_KeyOrderDelivery ==
    (op = "download_vectors" /\ rd.at # "prefill_inputs"
     /\ \A k \in DOMAIN rd.ids0 : rd.ids0[k] = Empty) =>
        NonDecreasing(rd.delivered)

\* control is back at the caller of the filter, writer or reader
AtCaller ==
    \/ pc \in {"returned", "done", "raised"}
    \/ dsq.at \in {"exhausted", "raised"}
    \/ rd.at \in {"done", "raised"}

\* C12: when control is back at the caller of the filter, the writer or a
\* reader, by a return or by an exception, no session that the call opened
\* is still open.
C12_SessionsClosedOnExit == AtCaller => sessions = 0

Reading == op \in {"db_session_query", "download_vectors"}

\* C13: a chunked reader has at most one session open at any time, and none
\* between two chunks, once the sequence is exhausted or has stopped at the
\* limit, once it has raised, once the consumer has abandoned it, and when a
\* new attempt starts.
C13_OneSessionPerChunk ==
    Reading =>
        /\ sessions <= 1
        /\ dsq.at \in {"while", "exhausted", "raised", "abandoned"}
              => sessions = 0
        /\ rd.at \in {"read_data", "while", "done", "raised"} => sessions = 0

Ended == dsq.at \in {"exhausted", "raised", "abandoned"}

\* C14: db_session_query opens a chunk query only if every earlier chunk of
\* the call returned chunksize rows and the call has not yet yielded its
\* limit-th row; and every call comes to an end.
C14_StopsQuerying ==
    /\ [][ (dsq.at = "while" /\ dsq'.at = "query") =>
              /\ \A k \in DOMAIN dsq.chunks : dsq.chunks[k] = dsq.chunksize
              /\ dsq.limit \notin 1..dsq.yielded ]_vars
    /\ (dsq.at = "while") ~> Ended

\* a call that stopped at its limit in its second chunk, with rows left
C14_Witness ==
    /\ dsq.at = "exhausted"
    /\ dsq.invocations = 1
    /\ Len(dsq.chunks) = 2
    /\ dsq.yielded = dsq.limit
    /\ dsq.offset + dsq.limit < dsq.N

\* the rows the query has from the offset of the call on
Available == IF dsq.offset >= dsq.N THEN 0 ELSE dsq.N - dsq.offset

\* C15: a call of db_session_query with a limit (0 or more) never has yielded
\* more than limit rows, and a call that is exhausted has yielded
\* min(limit, rows available from the offset) rows, all the available rows
\* if limit is None, each of them once and in order.
C15_LimitBoundsYield ==
    op = "db_session_query" =>
        /\ dsq.limit # None => dsq.yielded <= dsq.limit
        /\ dsq.at = "exhausted" =>
              /\ dsq.yielded = IF dsq.limit = None THEN Available
                               ELSE Min(dsq.limit, Available)
              /\ \A k \in 1..dsq.yielded :
                    dsq.delivered[Len(dsq.delivered) - dsq.yielded + k]
                        = dsq.offset + k

\* C16: a call of read_data with max_chunks = k issues at most k chunk
\* queries, and returns after the k-th or when the offset has reached the
\* row count; with max_chunks None it returns only when the offset has
\* reached the row count; and a chunk leaves the slots from the new offset on
\* as they were.
C16_MaxChunksBoundsQueries ==
    /\ [](op = "download_vectors" /\ rd.at \in {"while", "query", "done"} =>
            /\ rd.max_chunks # None => rd.queries <= rd.max_chunks
            /\ rd.at = "done" =>
                  \/ rd.offset >= rd.count
                  \/ rd.max_chunks # None /\ rd.queries = rd.max_chunks)
    /\ [][ (op = "download_vectors" /\ rd.at = "query" /\ rd'.at = "while") =>
              \A k \in DOMAIN rd.ids : k > rd'.offset => rd'.ids[k] = rd.ids[k]
        ]_vars

\* read_data has returned after its one chunk with a slot still unfilled
C16_Witness ==
    /\ op = "download_vectors" /\ rd.at = "done"
    /\ rd.max_chunks = 1 /\ rd.queries = 1
    /\ rd.offset < rd.count
    /\ rd.ids[rd.count] = Empty

\* every slot of ids holds the id of a source row, no two the same one
FilledFromSource ==
    /\ Len(rd.ids) = rd.count
    /\ \A k \in DOMAIN rd.ids : rd.ids[k] \in 1..rd.N
    /\ \A j, k \in DOMAIN rd.ids : j # k => rd.ids[j] # rd.ids[k]

\* C17: a decode error sends download_vectors back into read_data with the
\* arrays as they are; a download with max_chunks None (the decode errors
\* being finitely many) ends either with the exception of the store that is
\* not a decode error, or returning with every slot of ids filled from a
\* source row of its own.
C17_DecodeErrorResumes ==
    /\ [][ (op = "download_vectors" /\ rd.at = "query"
            /\ rd'.at = "read_data") =>
              (rd'.ids = rd.ids /\ exc' = exc) ]_vars
    /\ (op = "download_vectors" /\ rd.at = "read_data"
         /\ rd.max_chunks = None)
          ~> \/ rd.at = "raised" /\ exc = "OperationalError"
             \/ rd.at = "done" /\ FilledFromSource

RECURSIVE Concatenated(_)
Concatenated(ss) ==
    IF ss = <<>> THEN <<>> ELSE Head(ss) \o Concatenated(Tail(ss))

\* C18: the batches that split_batches has yielded, each as it was when it
\* was yielded, are one after the other the first rows of the input in
\* their order, and all of the input once the generator has stopped; no batch
\* has more than batch_size rows and every batch but the last one yielded
\* has batch_size rows; an input of at most batch_size rows gives one batch.
C18_BatchesPartitionInput ==
    op = "_insert_data" =>
        LET ys == gen.yielded
            rows == Concatenated(ys)
        IN  /\ rows = [k \in 1..Len(rows) |-> k]
            /\ Len(rows) <= Len(data)
            /\ gen.at = "stopped" => Len(rows) = Len(data)
            /\ \A k \in DOMAIN ys : Len(ys[k]) <= batch_size
            /\ \A k \in DOMAIN ys : k < Len(ys) => Len(ys[k]) = batch_size
            /\ Len(data) > Len(rows) => \A k \in DOMAIN ys : Len(ys[k]) = batch_size
            /\ (gen.at = "stopped" /\ Len(data) <= batch_size) => Len(ys) = 1

\* the generator has stopped after a full batch and a shorter last one
C18_Witness ==
    /\ op = "_insert_data" /\ gen.at = "stopped"
    /\ Len(gen.yielded) = 2
    /\ Len(gen.yielded[1]) = batch_size
    /\ Len(gen.yielded[2]) < batch_size

\* C19: when _insert_data has the lists insert_data returned for its k-th
\* batch, its running totals of inserted, existing, failed and total grow by
\* the lengths of these lists (from 0 at the first batch) and batch_total is
\* the count of this batch alone; and a run returns only with the running
\* total equal to the length of the input.
C19_RunningTotals ==
    /\ [][ (op = "_insert_data" /\ pc = "returned") =>
              LET before(n) == IF Len(gen.yielded) = 1 THEN 0 ELSE n
                  count == Len(returned.inserted) + Len(returned.existing)
                           + Len(returned.failed)
              IN  /\ totals'.inserted
                        = before(totals.inserted) + Len(returned.inserted)
                  /\ totals'.existing
                        = before(totals.existing) + Len(returned.existing)
                  /\ totals'.failed
                        = before(totals.failed) + Len(returned.failed)
                  /\ totals'.total = before(totals.total) + count
                  /\ totals'.batch_total = count ]_vars
    /\ [](op = "_insert_data" /\ pc = "done" => totals.total = Len(data))

\* a run has returned after two batches, with rows inserted and rows left out
C19_Witness ==
    /\ op = "_insert_data" /\ pc = "done"
    /\ Len(gen.yielded) = 2
    /\ totals.batch_total < totals.total
    /\ totals.inserted > 0
    /\ totals.existing + totals.failed > 0

\* C21: in nesta.core the filter lets every row of an entity through to objs,
\* reading no key, exactly when the entity's key is one INTEGER column with
\* autoincrement; for an entity with any other key a row that lacks a key
\* field is in failed_objs and a row whose key tuple a keyed row had earlier
\* in the batch is not in objs.
C21_AutoIncrementBypass ==
    (FilterJustReturned /\ impl = "core") =>
        IF has_autoincrement_column(cols)
        THEN /\ objs = batch
             /\ existing_objs = <<>> /\ failed_objs = <<>>
             /\ all_pks = {}
        ELSE \A j \in 1..Len(batch) :
                /\ ~Keyed(j) => InList(failed_objs, batch[j])
                /\ (Keyed(j) /\ \E i \in 1..(j - 1) :
                                   Keyed(i) /\ KeyOf(i) = KeyOf(j))
                      => ~InList(objs, batch[j])

\* C22: in nesta.core, for an entity whose key is not an auto-increment key,
\* in either matching mode, a row whose cast and truncated key tuple is the
\* key of a row of the table, or of an earlier row of the batch, is in
\* existing_objs when the filter returns.
C22_CoercedKeyDecides ==
    (FilterJustReturned /\ impl = "core" /\ ~has_autoincrement_column(cols)) =>
        \A j \in 1..Len(batch) :
            ( /\ Keyed(j)
              /\ \/ KeyOf(j) \in store
                 \/ \E i \in 1..(j - 1) : Keyed(i) /\ KeyOf(i) = KeyOf(j) )
            => InList(existing_objs, batch[j])

\* the key the table holds for a row, and for the rows rows_[i], i in list q
StoredKey(row) ==
    [j \in 1..Len(cols) |-> store_value(cols[j], row[cols[j].name], FALSE, 0)]
StoredKeys(rows_, q) == {StoredKey(rows_[q[i]]) : i \in DOMAIN q}
Positions(rows_) == [k \in 1..Len(rows_) |-> k]

\* what insert_data on rows_ does alone on the empty table
Alone(rows_) ==
    _filter_out_duplicates(impl, cols, low_memory, {}, rows_, Positions(rows_))
CompletesAlone(rows_) ==
    /\ ~Alone(rows_).raised
    /\ bulk_save_objects(cols, rows_, Alone(rows_).objs, TRUE, {}).error = ""

DisjointKeyDomains ==
    StoredKeys(data, Positions(data))
        \cap StoredKeys(peer.data, Positions(peer.data)) = {}

\* C23: two insert_data instances on the same, at first empty, table.  No key
\* is inserted by the open transactions of both, and no key that both
\* classified as to-insert is committed by both.  If their rows have no key
\* in common and each would complete alone, neither raises, each returns the
\* lists it returns alone, and when both are done the table holds the keys
\* of the rows in their two objs lists.
C23_ConcurrentWriters ==
    (peer.at # "idle" /\ run = 1) =>
        /\ held_by_first \cap uncommitted(peer) = {}
        /\ (pc \in {"returned", "done"} /\ peer.at = "done") =>
              StoredKeys(data, objs) \cap StoredKeys(peer.data, peer.objs) = {}
        /\ ( /\ DisjointKeyDomains
             /\ CompletesAlone(data) /\ CompletesAlone(peer.data) ) =>
              /\ pc # "raised" /\ peer.at # "raised"
              /\ pc \in {"returned", "done"} =>
                    /\ objs = Alone(data).objs
                    /\ existing_objs = Alone(data).existing_objs
                    /\ failed_objs = Alone(data).failed_objs
              /\ peer.at = "done" =>
                    /\ peer.objs = Alone(peer.data).objs
                    /\ peer.existing_objs = Alone(peer.data).existing_objs
                    /\ peer.failed_objs = Alone(peer.data).failed_objs
              /\ (pc = "done" /\ peer.at = "done") =>
                    store = StoredKeys(data, objs)
                              \cup StoredKeys(peer.data, peer.objs)

\* both instances are done, each has inserted its row
C23_Witness ==
    /\ peer.at = "done" /\ pc = "done" /\ run = 1
    /\ DisjointKeyDomains
    /\ Len(objs) = 1 /\ Len(peer.objs) = 1
    /\ Cardinality(store) = 2

C29_OneVersionUp ==
    /\ op = "setup_es" /\ call.at # "start"
    /\ call.es_mode = "prod" /\ ~call.test_mode /\ call.increment_version
    => \A v \in 0..MaxVersion :
         call.config_index = Tag \o IntToDigits(v) =>
           \/ call.at = "raised" /\ call.exc = "ValueError"
           \/ /\ call.at # "raised"
              /\ call.index = Tag \o IntToDigits(v + 1)
              /\ call.old_index = call.config_index

\* the rows of data before the batch that carry the coerced key of row
FirstRun == op = "_insert_data" /\ run = 1
InEarlierBatch(row) ==
    \E q \in 1..(batch[1] - 1) :
        has_all_pkeys(cols, data[q]) /\ StoredKey(data[q]) = StoredKey(row)
FirstOfItsKey(p) ==
    /\ has_all_pkeys(cols, data[p])
    /\ \A q \in 1..(p - 1) :
          has_all_pkeys(cols, data[q]) => StoredKey(data[q]) # StoredKey(data[p])
ValidKeys == {StoredKey(data[p]) : p \in {q \in DOMAIN data : has_all_pkeys(cols, data[q])}}

\* C25: in a run of _insert_data on an empty table, a row whose coerced key
\* tuple is the one of a row of an earlier batch is in existing_objs and not
\* in objs when the filter returns; the rows a returned insert_data has
\* inserted are the first of their key in the input; when the run returns,
\* the table holds the distinct keys of the rows with all key fields, one
\* inserted row for each.
C25_CrossBatchDuplicates ==
    FirstRun =>
        /\ (FilterReturned /\ batch # <<>>) =>
              \A j \in 1..Len(batch) :
                  (Keyed(j) /\ InEarlierBatch(RowOf(j))) =>
                      /\ InList(existing_objs, batch[j])
                      /\ ~InList(objs, batch[j])
        /\ pc = "returned" =>
              \A i \in DOMAIN objs : FirstOfItsKey(objs[i])
        /\ pc = "done" =>
              /\ store = ValidKeys
              /\ totals.inserted = Cardinality(ValidKeys)

\* the first run was aborted from outside (a kill, or a store error at the
\* save or the commit) after it had committed rows, and this is the rerun
RerunAfterAbort ==
    /\ op = "_insert_data" /\ run = 2 /\ pc # "start"
    /\ results[1].status = "raised"
    /\ results[1].exc \in {"Killed", "OperationalError"}
    /\ results[1].table # {}

\* C26: the rerun of an _insert_data run that was aborted after it had
\* committed rows, on the same input and with no other writer, does not
\* raise; its filter puts every row whose key the aborted run has committed
\* in existing_objs; when it returns the table holds exactly the distinct
\* coerced keys of the rows with all key fields.
C26_RerunConverges ==
    RerunAfterAbort =>
        /\ pc # "raised"
        /\ (FilterReturned /\ batch # <<>>) =>
              \A j \in 1..Len(batch) :
                  (Keyed(j) /\ StoredKey(RowOf(j)) \in results[1].table)
                      => InList(existing_objs, batch[j])
        /\ pc = "done" => store = ValidKeys

\* C27: a list that split_batches has yielded is, whenever the generator is
\* advanced, still what it was when it was yielded; so once the generator has
\* stopped, the lists a consumer has collected are the input when
\* concatenated.
C27_YieldedBatchUnchanged ==
    op = "_insert_data" =>
        LET now == yielded_lists(Len(data), batch_size, gen)
        IN  /\ now = gen.yielded
            /\ gen.at = "stopped" =>
                  Concatenated(now) = [k \in 1..Len(data) |-> k]

\* C28: with n_batches or batch_size set, the (first_idx, last_idx) that
\* yield_batch yields for an input of total >= 1 lines are within 0..total
\* with first_idx <= last_idx, start at 0, each begin where the one before
\* ends, and end at total once the loop is over, which never raises; and
\* calculate_batch_indices raises ValueError for i >= n_batches.
C28_BatchIndicesPartition ==
    op = "yield_batch" =>
        LET ys == call.yielded
        IN  /\ \A k \in DOMAIN ys :
                  /\ 0 <= ys[k][1] /\ ys[k][1] <= ys[k][2]
                  /\ ys[k][2] <= call.total
                  /\ ys[k][1] = (IF k = 1 THEN 0 ELSE ys[k - 1][2])
            /\ call.at = "raised" =>
                  (call.batch_size = None /\ call.n_batches = None)
            /\ call.at \in {"stopped", "asked"} =>
                  /\ Len(ys) = call.n_batches
                  /\ ys[Len(ys)][2] = call.total
            /\ call.at = "asked" => call.beyond = "ValueError"

HardTerminate == op = "hard_terminate"

\* C30 as stated: hard_terminate never ends but by raising
\* BatchJobException.
C30_AlwaysBatchJobException ==
    (HardTerminate /\ call.at = "raised") => call.exc = "BatchJobException"

\* what hard_terminate keeps to while it runs and when it has raised
C30_Rounds ==
    /\ call.at \in {"terminate", "check", "raised"}
    /\ call.rounds = call.iattempt + 1 /\ call.rounds <= 11
    /\ call.at = "check" => call.terminated = call.n
    /\ (call.at = "terminate" /\ call.iattempt > 0) => call.n > 0
    /\ call.at = "raised" =>
          /\ call.exc \in {"BatchJobException", "Exception"}
          /\ (call.exc = "BatchJobException" /\ call.n > 0) =>
                call.iattempt = 10 /\ call.note = call.n

\* C30, amended: hard_terminate ends, and never by returning: it raises
\* BatchJobException or the Exception of get_job_status for an answer whose
\* status code is not 200.  Each round calls terminate_job for every job
\* still listed, another round starts only with a job that is neither FAILED
\* nor SUCCEEDED and iattempt < 10, there are at most 11 rounds, and with
\* jobs left after the last round the reason has their number in its note.
C30_EndsByRaising ==
    /\ [](HardTerminate => C30_Rounds)
    /\ HardTerminate ~> (call.at = "raised")

\* hard_terminate has raised BatchJobException after 11 rounds with a job
\* that could not be killed
C30_Witness ==
    /\ HardTerminate /\ call.at = "raised" /\ call.exc = "BatchJobException"
    /\ call.rounds = 11 /\ call.n > 0 /\ call.note = call.n

====
